---- MODULE Spec2Model ----
(***************************************************************************)
(* A model of ckan/config/middleware.py: the page cache                    *)
(* (PageCacheMiddleware), the locale selector (I18nMiddleware), the event  *)
(* tracker (TrackingMiddleware) and the completion hook                    *)
(* (execute_on_completion / generate_close_and_callback).                  *)
(*                                                                         *)
(* Representation of Python values:                                        *)
(*   - a dict (environ) is a function whose DOMAIN is the set of keys      *)
(*     present; a str that the code parses (a path, a status line, a       *)
(*     payload) is a sequence of one-character strings, other str values   *)
(*     are TLA+ strings;                                                   *)
(*   - a response body string is run-length encoded, a sequence of         *)
(*     <<character, count>> runs with no empty run and no two adjacent     *)
(*     runs of the same character, so that bodies longer than the 4096     *)
(*     byte chunk size of the cache fit in the model;                      *)
(*   - an iterable returned by a WSGI application is a record with its     *)
(*     chunks, whether it is a one-shot generator (lazy) or a list, and    *)
(*     whether the application raises: "no", "call" (when called, before   *)
(*     it returns a stream) or "iter" (while the stream is iterated,       *)
(*     after raiseAt chunks).                                              *)
(***************************************************************************)
EXTENDS Integers, Sequences, FiniteSets, TLC

\* ------------------------------------------------------------------ bounds
\* Requests handled in one behaviour of the page cache.
MaxRequests == 3
\* Times the Redis server becomes unreachable in one behaviour.
MaxOutages == 1
\* Chunks of an iterable given to the completion hook.
MaxChunks == 2
\* Characters of a PATH_INFO given to the locale middleware.
MaxPathLen == 5
\* Times one environ passes through the locale middleware.
MaxDispatch == 2
\* Requests given to the tracking middleware in one behaviour.
MaxTracked == 2
\* Characters of a PATH_INFO and of a QUERY_STRING a cache key is made of.
MaxKeyPath == 4
MaxKeyQuery == 2

\* ----------------------------------------------------------------- strings
\* Python: s.startswith(prefix)
StartsWith(s, prefix) ==
    /\ Len(s) >= Len(prefix)
    /\ SubSeq(s, 1, Len(prefix)) = prefix

\* Length of a run-length encoded str: len(page)
RECURSIVE RLen(_)
RLen(s) == IF s = <<>> THEN 0 ELSE Head(s)[2] + RLen(Tail(s))

\* Concatenation of two run-length encoded strs: a + b
RCat(a, b) ==
    IF a = <<>> THEN b
    ELSE IF b = <<>> THEN a
    ELSE IF a[Len(a)][1] = Head(b)[1]
         THEN SubSeq(a, 1, Len(a) - 1)
              \o << <<Head(b)[1], a[Len(a)][2] + Head(b)[2]>> >>
              \o Tail(b)
         ELSE a \o b

\* The first n characters of a run-length encoded str: s[:n]
RECURSIVE RTake(_, _)
RTake(s, n) ==
    IF n <= 0 \/ s = <<>> THEN <<>>
    ELSE IF Head(s)[2] <= n
         THEN <<Head(s)>> \o RTake(Tail(s), n - Head(s)[2])
         ELSE << <<Head(s)[1], n>> >>

\* A run-length encoded str without its first n characters: s[n:]
RECURSIVE RDrop(_, _)
RDrop(s, n) ==
    IF n <= 0 \/ s = <<>> THEN s
    ELSE IF Head(s)[2] <= n
         THEN RDrop(Tail(s), n - Head(s)[2])
         ELSE << <<Head(s)[1], Head(s)[2] - n>> >> \o Tail(s)

\* Python slice page[from:to]
Slice(s, from, to) == RTake(RDrop(s, from), to - from)

\* ''.join(chunks) of a sequence of run-length encoded strs
RECURSIVE Join(_)
Join(chunks) ==
    IF chunks = <<>> THEN <<>> ELSE RCat(Head(chunks), Join(Tail(chunks)))

\* Python: s.split(sep), for a one-character sep
RECURSIVE Split(_, _)
Split(s, sep) ==
    IF \E i \in 1..Len(s) : s[i] = sep
    THEN LET i == CHOOSE j \in 1..Len(s) :
                    s[j] = sep /\ \A h \in 1..(j - 1) : s[h] # sep
         IN <<SubSeq(s, 1, i - 1)>> \o Split(SubSeq(s, i + 1, Len(s)), sep)
    ELSE <<s>>

\* Python: sep.join(parts), for a one-character sep
RECURSIVE JoinWith(_, _)
JoinWith(parts, sep) ==
    IF parts = <<>> THEN <<>>
    ELSE IF Len(parts) = 1 THEN parts[1]
    ELSE parts[1] \o <<sep>> \o JoinWith(Tail(parts), sep)

\* urllib.always_safe: the characters quote() never escapes
AlwaysSafe ==
    { "A", "B", "C", "D", "E", "F", "G", "H", "I", "J", "K", "L", "M", "N",
      "O", "P", "Q", "R", "S", "T", "U", "V", "W", "X", "Y", "Z",
      "a", "b", "c", "d", "e", "f", "g", "h", "i", "j", "k", "l", "m", "n",
      "o", "p", "q", "r", "s", "t", "u", "v", "w", "x", "y", "z",
      "0", "1", "2", "3", "4", "5", "6", "7", "8", "9", "_", ".", "-" }

\* The two hexadecimal digits of the characters quote() escapes here.
HexOf ==
    (" " :> <<"2", "0">>) @@ ("%" :> <<"2", "5">>) @@ ("&" :> <<"2", "6">>)
    @@ ("/" :> <<"2", "F">>) @@ (":" :> <<"3", "A">>) @@ ("=" :> <<"3", "D">>)
    @@ ("?" :> <<"3", "F">>)

\* urllib.quote(s, ''): every character that is not always safe becomes
\* '%' and its two hexadecimal digits
RECURSIVE Quote(_)
Quote(s) ==
    IF s = <<>> THEN <<>>
    ELSE (IF Head(s) \in AlwaysSafe THEN <<Head(s)>>
          ELSE <<"%">> \o HexOf[Head(s)]) \o Quote(Tail(s))

\* The characters of the escapes unquote() decodes here: _hextochr, for the
\* pairs of hexadecimal digits the payloads use. "\\xe9" is the byte 0xE9,
\* which is no UTF-8 text.
HexToChr ==
    (<<"2", "F">> :> "/") @@ (<<"3", "A">> :> ":") @@ (<<"3", "D">> :> "=")
    @@ (<<"7", "6">> :> "v") @@ (<<"E", "9">> :> "\\xe9")

\* urllib2.unquote(s): every '%' followed by two hexadecimal digits becomes
\* the character they name; any other '%' is kept
RECURSIVE Unquote(_)
Unquote(s) ==
    IF s = <<>> THEN <<>>
    ELSE IF Head(s) = "%" /\ Len(s) >= 3 /\ SubSeq(s, 2, 3) \in DOMAIN HexToChr
    THEN <<HexToChr[SubSeq(s, 2, 3)]>> \o Unquote(SubSeq(s, 4, Len(s)))
    ELSE <<Head(s)>> \o Unquote(Tail(s))

\* Whether s.decode("utf8") succeeds, for text of ASCII characters and the
\* byte 0xE9; when it does the text is unchanged.
DecodesUtf8(s) == \A i \in 1..Len(s) : s[i] # "\\xe9"

\* dict helpers: environ[k] = v, environ.get(k), bool(environ.get(k))
SetKey(env, k, v) == (k :> v) @@ env
HasKey(env, k) == k \in DOMAIN env
Truthy(env, k) == HasKey(env, k) /\ env[k] # ""
Flagged(env, k) == HasKey(env, k) /\ env[k] = TRUE

\* ------------------------------------------------------- PageCacheMiddleware
Procs == {"t1", "t2"}

\* Status lines, as strs of characters.
Status200 == <<"2", "0", "0", " ", "O", "K">>
Status404 == <<"4", "0", "4", " ", "N", "o", "t">>

\* Header lists as passed to start_response: lists of (name, value) tuples.
HeadersA == << <<"Content-Type", "text/html">> >>
HeadersB == << <<"Content-Type", "text/html">>, <<"X-Page", "b">> >>

\* Body chunks: run-length encoded strs.
ChunkX == << <<"x", 3000>> >>
ChunkXY == << <<"x", 2000>>, <<"y", 3000>> >>
ChunkY == << <<"y", 100>> >>

\* The requests the cache is given (environ as the server builds it).
PathA == <<"/", "a">>
PathFrA == <<"/", "f", "r", "/", "a">>
CacheRequests ==
    { [REQUEST_METHOD |-> "GET", PATH_INFO |-> PathA, QUERY_STRING |-> <<>>],
      [REQUEST_METHOD |-> "GET", PATH_INFO |-> PathFrA, QUERY_STRING |-> <<>>,
       REMOTE_USER |-> ""],
      [REQUEST_METHOD |-> "POST", PATH_INFO |-> PathA, QUERY_STRING |-> <<>>],
      [REQUEST_METHOD |-> "GET", PATH_INFO |-> PathA, QUERY_STRING |-> <<>>,
       REMOTE_USER |-> "joe"] }

\* What the wrapped application (self.app) may do when called: raise at once,
\* or call start_response(status, headers), possibly set CKAN_PAGE_CACHABLE,
\* and return an iterable. A list never raises when iterated. The application
\* calls start_response before it returns, as the Pylons stack below does.
Resp(s, h, c, ch, l, r, at) ==
    [raises |-> r, status |-> s, headers |-> h, cachable |-> c, chunks |-> ch,
     lazy |-> l, raiseAt |-> at]
Downstream ==
    { Resp(Status200, HeadersA, TRUE, <<ChunkX, ChunkXY>>, FALSE, "no", 0),
      Resp(Status200, HeadersB, TRUE, <<ChunkY>>, TRUE, "no", 0),
      Resp(Status200, HeadersA, FALSE, <<ChunkX, ChunkXY>>, TRUE, "no", 0),
      Resp(Status404, HeadersA, TRUE, <<ChunkY>>, FALSE, "no", 0),
      Resp(Status200, HeadersA, TRUE, <<ChunkX, ChunkXY>>, TRUE, "iter", 1),
      Resp(<<>>, <<>>, FALSE, <<>>, FALSE, "call", 0) }

VARIABLES
    redis_connection,   \* self.redis_connection: "None" or "StrictRedis"
    redisUp,            \* whether the Redis server answers
    outages,            \* times the server became unreachable
    store,              \* the Redis database: key -> list of elements
    origin,             \* history: per key, the response behind each entry
    pc,                 \* per thread: where it is in __call__
    environ,            \* per thread: the request's environ
    page,               \* per thread: the iterable returned by self.app
    client,             \* per thread: what the caller of __call__ received
    hist,               \* history per thread: calls made for this request
    nreq                \* requests started

cacheVars == <<redis_connection, redisUp, outages, store, origin, pc, environ,
               page, client, hist, nreq>>

VARIABLES
    hkIter,             \* the iterable the wrapped application returns
    hkGen,              \* the generator of generate_close_and_callback
    hkGot,              \* the chunks the consumer has received
    hkCallbacks,        \* times callback(environ) has run
    hkCloses,           \* times iterable.close() has run
    hkError,            \* the error that reached the consumer
    hkLog               \* the calls made, in order

hookVars == <<hkIter, hkGen, hkGot, hkCallbacks, hkCloses, hkError, hkLog>>

VARIABLES
    i18nEnv,            \* the environ given to I18nMiddleware
    i18nOrig,           \* history: the environ as the request arrived
    i18nCalls           \* times self.app was called

i18nVars == <<i18nEnv, i18nOrig, i18nCalls>>

VARIABLES
    trkEnv,             \* the environ of the last request given to the tracker
    trkRows,            \* the rows of tracking_raw
    trkResp,            \* the response to the last request
    trkBefore,          \* history: the number of rows before the last request
    trkLog,             \* history: the environ each row was inserted for
    trkCount            \* requests handled

trackVars == <<trkEnv, trkRows, trkResp, trkBefore, trkLog, trkCount>>

VARIABLES
    keyReqs,            \* two requests given to the page cache
    keyOut              \* the cache keys made for them

keyVars == <<keyReqs, keyOut>>

VARIABLES
    plReq,              \* what the application does for the request
    plPc,               \* where the request is in PageCacheMiddleware.__call__
    plGen,              \* the generator of generate_close_and_callback
    plSent,             \* the chunks the caller of the pipeline has received
    plStore,            \* the list Redis holds under the key of the request
    plLog               \* the callback runs and the deliveries, in order

pipeVars == <<plReq, plPc, plGen, plSent, plStore, plLog>>

vars == <<cacheVars, hookVars, i18nVars, trackVars, keyVars, pipeVars>>

\* The state of a middleware that handles no request in a behaviour.
CacheIdle ==
    /\ redis_connection = "None" /\ redisUp = TRUE /\ outages = 0
    /\ store = <<>> /\ origin = <<>> /\ pc = <<>> /\ environ = <<>>
    /\ page = <<>> /\ client = <<>> /\ hist = <<>> /\ nreq = 0
HookIdle ==
    /\ hkIter = <<>> /\ hkGen = "none" /\ hkGot = <<>> /\ hkCallbacks = 0
    /\ hkCloses = 0 /\ hkError = "none" /\ hkLog = <<>>
I18nIdle ==
    /\ i18nEnv = <<>> /\ i18nOrig = <<>> /\ i18nCalls = 0
TrackIdle ==
    /\ trkEnv = <<>> /\ trkRows = <<>> /\ trkResp = <<>> /\ trkBefore = 0
    /\ trkLog = <<>> /\ trkCount = 0
KeyIdle ==
    /\ keyReqs = <<>> /\ keyOut = <<>>
PipeIdle ==
    /\ plReq = <<>> /\ plPc = "idle" /\ plGen = "none" /\ plSent = <<>>
    /\ plStore = <<>> /\ plLog = <<>>

\* key = 'page:%s?%s' % (environ['PATH_INFO'], environ['QUERY_STRING'])
CacheKey(env) ==
    <<"p", "a", "g", "e", ":">> \o env["PATH_INFO"] \o <<"?">>
    \o env["QUERY_STRING"]

Keys == { CacheKey(r) : r \in CacheRequests }

\* Mutant of Bypass: the authenticated-user test is left out.
BypassMethodOnly(env) == env["REQUEST_METHOD"] # "GET"

\* environ['REQUEST_METHOD'] != 'GET' or environ.get('REMOTE_USER')
Bypass(env) == env["REQUEST_METHOD"] # "GET" \/ Truthy(env, "REMOTE_USER")

\* json.dumps(response_headers): a JSON array of two-element arrays; what
\* json.loads gives back for it is a list of lists of unicode objects.
Unicode(s) == [u |-> s]
JsonDumps(headers) ==
    [json |-> [i \in 1..Len(headers) |->
                 [list |-> <<Unicode(headers[i][1]), Unicode(headers[i][2])>>]]]
JsonLoads(text) == text.json

\* str(x) of a unicode object holding ASCII text
Str(x) == x.u

\* Mutant of HeaderTuples: the name is taken for the value.
HeaderTuplesNameTwice(loaded) ==
    [i \in 1..Len(loaded) |-> <<Str(loaded[i].list[1]), Str(loaded[i].list[1])>>]

\* headers = [(str(key), str(value)) for key, value in headers]
HeaderTuples(loaded) ==
    [i \in 1..Len(loaded) |-> <<Str(loaded[i].list[1]), Str(loaded[i].list[2])>>]

\* The chunk size of a cached page: size = 4096
size == 4096

\* Mutant of ChunkLoop: each slice ends one character early.
RECURSIVE ChunkLoopShort(_, _)
ChunkLoopShort(pg, position) ==
    IF position < RLen(pg)
    THEN <<Slice(pg, position, position + size - 1)>>
         \o ChunkLoopShort(pg, position + size)
    ELSE <<>>

\* while position < total: out.append(page[position:position + size])
RECURSIVE ChunkLoop(_, _)
ChunkLoop(pg, position) ==
    IF position < RLen(pg)
    THEN <<Slice(pg, position, position + size)>>
         \o ChunkLoop(pg, position + size)
    ELSE <<>>

\* Mutant of LRange02: the last three elements of the list.
LRangeLast(list) ==
    SubSeq(list, IF Len(list) < 3 THEN 1 ELSE Len(list) - 2, Len(list))

\* redis LRANGE key 0 2 on a list
LRange02(list) == SubSeq(list, 1, IF Len(list) < 3 THEN Len(list) ELSE 3)

\* What the caller of __call__ has received. body and error are what the
\* returned iterable yields when it is drained; read is the number of chunks
\* the caller took before it closed the iterable (read < Len(body): the
\* caller aborted).
NoClient ==
    [status |-> <<>>, headers |-> <<>>, body |-> <<>>, error |-> "none",
     source |-> "none", read |-> 0]
Raised(c, e) == [c EXCEPT !.error = e, !.source = "error"]

\* The chunks an iterable yields when drained, and how the draining ends.
Yields(d) == IF d.raises = "iter" THEN SubSeq(d.chunks, 1, d.raiseAt) ELSE d.chunks
DrainError(d) == IF d.raises = "iter" THEN "AppError" ELSE "none"

NoPage == [page_string |-> <<>>, rest |-> <<>>]
\* History of a request: the calls of self.app, the lookups answered and the
\* writes completed for it, whether Redis failed under it, the response of
\* self.app (down), the entries of its key when it was answered from the
\* cache (from), and whether, when it arrived, a finished request for the
\* same key had received a cachable 200 response (prior).
NoHist == [nextCalls |-> 0, lookups |-> 0, writes |-> 0, failed |-> FALSE,
           down |-> <<>>, from |-> <<>>, prior |-> FALSE]

\* return self.app(environ, start_response): the application d runs on the
\* environ env with the caller's start_response, and the caller drains the
\* iterable it returns. h is the history of the request so far.
Live(p, env, h, d) ==
    /\ hist' = [hist EXCEPT ![p] =
                  [h EXCEPT !.nextCalls = @ + 1, !.down = <<d>>]]
    /\ environ' = [environ EXCEPT ![p] =
            IF d.cachable THEN SetKey(env, "CKAN_PAGE_CACHABLE", TRUE) ELSE env]
    /\ client' = [client EXCEPT ![p] =
            IF d.raises = "call" THEN Raised(NoClient, "AppError")
            ELSE [status |-> d.status, headers |-> d.headers,
                  body |-> Yields(d), error |-> DrainError(d),
                  source |-> "live", read |-> Len(Yields(d))]]
    /\ pc' = [pc EXCEPT ![p] = "done"]

\* On a miss the caller may also close the returned iterable before it has
\* read anything of it, or after any number of its chunks.
Reads(chunks) == 0..Len(chunks)

\* Mutant of ShouldCache: the status test is left out.
ShouldCacheAnyStatus(env) == Flagged(env, "CKAN_PAGE_CACHABLE")

\* if not environ['CKAN_PAGE_STATUS'].startswith('200'): return page
\* ... if environ.get('CKAN_PAGE_CACHABLE'): cachable = True
ShouldCache(env) ==
    /\ StartsWith(env["CKAN_PAGE_STATUS"], <<"2", "0", "0">>)
    /\ Flagged(env, "CKAN_PAGE_CACHABLE")

\* Mutant of Buffer: an error raised by the page is swallowed and what was
\* read until then is taken for the body.
BufferPartial(d) ==
    [ok |-> TRUE,
     page_string |-> Join(IF d.raises = "iter"
                          THEN SubSeq(d.chunks, 1, d.raiseAt) ELSE d.chunks),
     rest |-> IF d.lazy THEN <<>> ELSE d.chunks]

\* page_string = ''.join(list(page)): the body buffered, unless iterating the
\* page raises, and what is left of the iterable: a list can be iterated
\* again, a generator is exhausted.
Buffer(d) ==
    [ok |-> d.raises # "iter",
     page_string |-> Join(d.chunks),
     rest |-> IF d.lazy THEN <<>> ELSE d.chunks]

\* A response of self.app that the cache would keep.
Keepable(d) ==
    d.raises = "no" /\ d.cachable /\ StartsWith(d.status, <<"2", "0", "0">>)

\* Whether a finished request for the key of r has received such a response.
Prior(r) ==
    \E t \in Procs : /\ pc[t] = "done"
                      /\ ~Bypass(environ[t])
                      /\ CacheKey(environ[t]) = CacheKey(r)
                      /\ hist[t].down # <<>>
                      /\ Keepable(hist[t].down[1])

CacheInit ==
    /\ redis_connection = "None"
    /\ redisUp \in BOOLEAN
    /\ outages = 0
    /\ store = [k \in Keys |-> <<>>]
    /\ origin = [k \in Keys |-> <<>>]
    /\ pc = [p \in Procs |-> "idle"]
    /\ environ = [p \in Procs |-> <<>>]
    /\ page = [p \in Procs |-> NoPage]
    /\ client = [p \in Procs |-> NoClient]
    /\ hist = [p \in Procs |-> NoHist]
    /\ nreq = 0
    /\ HookIdle /\ I18nIdle /\ TrackIdle /\ KeyIdle /\ PipeIdle

\* __call__, lines 181-191: a request arrives; the bypass test, the key, and
\* the test of the connection handle. Nothing makes the test and what
\* follows it one step: the threads of the server share the instance.
Request(p, r) ==
    /\ UNCHANGED <<hookVars, i18nVars, trackVars, keyVars, pipeVars>>
    /\ pc[p] \in {"idle", "done"}
    /\ nreq < MaxRequests
    /\ nreq' = nreq + 1
    /\ page' = [page EXCEPT ![p] = NoPage]
    /\ UNCHANGED <<redis_connection, redisUp, outages, store, origin>>
    /\ IF Bypass(r)
       THEN \E d \in Downstream : Live(p, r, NoHist, d)
       ELSE /\ environ' = [environ EXCEPT ![p] = r]
            /\ client' = [client EXCEPT ![p] = NoClient]
            /\ hist' = [hist EXCEPT ![p] = [NoHist EXCEPT !.prior = Prior(r)]]
            /\ pc' = [pc EXCEPT ![p] =
                        IF redis_connection = "None" THEN "connect"
                        ELSE "lookup"]

\* __call__, line 193: self.redis_connection = self.redis.StrictRedis().
\* Creating the client object does not talk to the server.
Connect(p) ==
    /\ UNCHANGED <<hookVars, i18nVars, trackVars, keyVars, pipeVars>>
    /\ pc[p] = "connect"
    /\ redis_connection' = "StrictRedis"
    /\ pc' = [pc EXCEPT ![p] = "flush"]
    /\ UNCHANGED <<redisUp, outages, store, origin, environ, page, client,
                   hist, nreq>>

\* __call__, line 194, first half: self.redis_connection is read again from
\* self for the call of flushdb(). Another thread may have cleared it, and
\* then the attribute lookup fails with an AttributeError, which the except
\* clause (redis ConnectionError only) does not catch. Otherwise the thread
\* is inside flushdb() on the client object it has read, waiting for the
\* server.
Flush(p) ==
    /\ UNCHANGED <<hookVars, i18nVars, trackVars, keyVars, pipeVars>>
    /\ pc[p] = "flush"
    /\ UNCHANGED <<redis_connection, redisUp, outages, store, origin, environ,
                   page, hist, nreq>>
    /\ IF redis_connection = "None"
       THEN /\ client' = [client EXCEPT ![p] = Raised(@, "AttributeError")]
            /\ pc' = [pc EXCEPT ![p] = "done"]
       ELSE /\ pc' = [pc EXCEPT ![p] = "flushdb"]
            /\ UNCHANGED client

\* __call__, lines 194-195, second half: the server's answer to flushdb().
\* The call runs on the client object the thread holds, whatever
\* self.redis_connection is by now. When the server does not answer, the
\* ConnectionError takes the thread to the except clause.
Flushdb(p) ==
    /\ UNCHANGED <<hookVars, i18nVars, trackVars, keyVars, pipeVars>>
    /\ pc[p] = "flushdb"
    /\ UNCHANGED <<redis_connection, redisUp, outages, environ, page, client,
                   nreq>>
    /\ IF redisUp
       THEN /\ store' = [k \in Keys |-> <<>>]
            /\ origin' = [k \in Keys |-> <<>>]
            /\ pc' = [pc EXCEPT ![p] = "lookup"]
            /\ UNCHANGED hist
       ELSE /\ hist' = [hist EXCEPT ![p].failed = TRUE]
            /\ pc' = [pc EXCEPT ![p] = "except"]
            /\ UNCHANGED <<store, origin>>

\* Mutant of Except: the handle is left in place.
ExceptKeepsHandle(p) ==
    /\ UNCHANGED <<hookVars, i18nVars, trackVars, keyVars, pipeVars>>
    /\ pc[p] = "except"
    /\ pc' = [pc EXCEPT ![p] = "except_app"]
    /\ UNCHANGED <<redis_connection, redisUp, outages, store, origin, environ,
                   page, client, hist, nreq>>

\* __call__, lines 195-197 and 203-205, the except clauses:
\* self.redis_connection = None.
Except(p) ==
    /\ UNCHANGED <<hookVars, i18nVars, trackVars, keyVars, pipeVars>>
    /\ pc[p] = "except"
    /\ redis_connection' = "None"
    /\ pc' = [pc EXCEPT ![p] = "except_app"]
    /\ UNCHANGED <<redisUp, outages, store, origin, environ, page, client,
                   hist, nreq>>

\* __call__, lines 198 and 206: return self.app(environ, start_response) in
\* an except clause, after the handle was cleared.
ExceptApp(p) ==
    /\ UNCHANGED <<hookVars, i18nVars, trackVars, keyVars, pipeVars>>
    /\ pc[p] = "except_app"
    /\ UNCHANGED <<redis_connection, redisUp, outages, store, origin, page,
                   nreq>>
    /\ \E d \in Downstream : Live(p, environ[p], hist[p], d)

\* The response replayed from a stored entry, lines 208-223.
Cached(result) ==
    [status |-> result[1],
     headers |-> HeaderTuples(JsonLoads(result[2])),
     body |-> ChunkLoop(result[3], 0),
     error |-> "none", source |-> "cache",
     read |-> Len(ChunkLoop(result[3], 0))]

\* __call__, line 202, first half: self.redis_connection is read again from
\* self for the call of lrange(). A handle that another thread has cleared
\* gives an AttributeError, which is not caught. Otherwise the thread is
\* inside lrange() on the client object it has read, waiting for the server.
Lookup(p) ==
    /\ UNCHANGED <<hookVars, i18nVars, trackVars, keyVars, pipeVars>>
    /\ pc[p] = "lookup"
    /\ UNCHANGED <<redis_connection, redisUp, outages, store, origin, environ,
                   page, hist, nreq>>
    /\ IF redis_connection = "None"
       THEN /\ client' = [client EXCEPT ![p] = Raised(@, "AttributeError")]
            /\ pc' = [pc EXCEPT ![p] = "done"]
       ELSE /\ pc' = [pc EXCEPT ![p] = "lrange"]
            /\ UNCHANGED client

\* __call__, lines 202-223: the server's answer to lrange(key, 0, 2), and the
\* reply from the cache on a hit. The call runs on the client object the
\* thread holds. When the server does not answer, the ConnectionError takes
\* the thread to the except clause.
Lrange(p) ==
    /\ UNCHANGED <<hookVars, i18nVars, trackVars, keyVars, pipeVars>>
    /\ pc[p] = "lrange"
    /\ UNCHANGED <<redis_connection, redisUp, outages, store, origin, environ,
                   page, nreq>>
    /\ IF ~redisUp
       THEN /\ hist' = [hist EXCEPT ![p].failed = TRUE]
            /\ pc' = [pc EXCEPT ![p] = "except"]
            /\ UNCHANGED client
       ELSE LET key == CacheKey(environ[p])
                result == LRange02(store[key])
            IN IF result # <<>>
               THEN /\ client' = [client EXCEPT ![p] = Cached(result)]
                    /\ hist' = [hist EXCEPT ![p].lookups = @ + 1,
                                            ![p].from = origin[key]]
                    /\ pc' = [pc EXCEPT ![p] = "done"]
               ELSE /\ hist' = [hist EXCEPT ![p].lookups = @ + 1]
                    /\ pc' = [pc EXCEPT ![p] = "app"]
                    /\ UNCHANGED client

\* __call__, lines 225-239: the application is called with _start_response;
\* the status test, the cachable test, and the buffering of the body.
CallApp(p) ==
    /\ UNCHANGED <<hookVars, i18nVars, trackVars, keyVars, pipeVars>>
    /\ pc[p] = "app"
    /\ UNCHANGED <<redis_connection, redisUp, outages, store, origin, nreq>>
    /\ \E d \in Downstream :
         LET env1 == IF d.cachable
                     THEN SetKey(environ[p], "CKAN_PAGE_CACHABLE", TRUE)
                     ELSE environ[p]
             env2 == SetKey(SetKey(env1, "CKAN_PAGE_STATUS", d.status),
                            "CKAN_PAGE_HEADERS", d.headers)
             h == [hist[p] EXCEPT !.nextCalls = @ + 1, !.down = <<d>>]
             started == [NoClient EXCEPT !.status = d.status,
                                         !.headers = d.headers]
         IN IF d.raises = "call"
            THEN /\ client' = [client EXCEPT ![p] = Raised(NoClient, "AppError")]
                 /\ environ' = [environ EXCEPT ![p] = env1]
                 /\ hist' = [hist EXCEPT ![p] = h]
                 /\ pc' = [pc EXCEPT ![p] = "done"]
                 /\ UNCHANGED page
            ELSE IF ~ShouldCache(env2)
            THEN /\ \E n \in Reads(Yields(d)) :
                       client' = [client EXCEPT ![p] =
                           [started EXCEPT !.body = Yields(d),
                                           !.error = DrainError(d),
                                           !.source = "live", !.read = n]]
                 /\ environ' = [environ EXCEPT ![p] = env2]
                 /\ hist' = [hist EXCEPT ![p] = h]
                 /\ pc' = [pc EXCEPT ![p] = "done"]
                 /\ UNCHANGED page
            ELSE IF ~Buffer(d).ok
            THEN /\ client' = [client EXCEPT ![p] = Raised(started, "AppError")]
                 /\ environ' = [environ EXCEPT ![p] = env2]
                 /\ hist' = [hist EXCEPT ![p] = h]
                 /\ pc' = [pc EXCEPT ![p] = "done"]
                 /\ UNCHANGED page
            ELSE /\ page' = [page EXCEPT ![p] =
                               [page_string |-> Buffer(d).page_string,
                                rest |-> Buffer(d).rest]]
                 /\ client' = [client EXCEPT ![p] = started]
                 /\ environ' = [environ EXCEPT ![p] = env2]
                 /\ hist' = [hist EXCEPT ![p] = h]
                 /\ pc' = [pc EXCEPT ![p] = "write"]

\* Mutant of Entry: the body is not pushed.
EntryWithoutBody(env, page_string) ==
    <<env["CKAN_PAGE_STATUS"], JsonDumps(env["CKAN_PAGE_HEADERS"])>>

\* The three elements pushed for an entry, lines 242-244.
Entry(env, page_string) ==
    <<env["CKAN_PAGE_STATUS"], JsonDumps(env["CKAN_PAGE_HEADERS"]), page_string>>

\* __call__, lines 241-244: the pipeline is taken from the handle (read again
\* from self) and the three pushes are queued on it; nothing is sent yet. A
\* handle that another thread has cleared gives an AttributeError, which is
\* not caught.
Write(p) ==
    /\ UNCHANGED <<hookVars, i18nVars, trackVars, keyVars, pipeVars>>
    /\ pc[p] = "write"
    /\ UNCHANGED <<redis_connection, redisUp, outages, store, origin, environ,
                   page, hist, nreq>>
    /\ IF redis_connection = "None"
       THEN /\ client' = [client EXCEPT ![p] = Raised(@, "AttributeError")]
            /\ pc' = [pc EXCEPT ![p] = "done"]
       ELSE /\ pc' = [pc EXCEPT ![p] = "execute"]
            /\ UNCHANGED client

\* __call__, lines 245-246: pipe.execute() sends the three pushes as one
\* transaction on the pipeline the thread holds, and page is returned. A
\* failing execute() is not caught.
Execute(p) ==
    /\ UNCHANGED <<hookVars, i18nVars, trackVars, keyVars, pipeVars>>
    /\ pc[p] = "execute"
    /\ UNCHANGED <<redis_connection, redisUp, outages, environ, page, nreq>>
    /\ pc' = [pc EXCEPT ![p] = "done"]
    /\ IF ~redisUp
       THEN /\ client' = [client EXCEPT ![p] = Raised(@, "ConnectionError")]
            /\ hist' = [hist EXCEPT ![p].failed = TRUE]
            /\ UNCHANGED <<store, origin>>
       ELSE LET key == CacheKey(environ[p])
            IN /\ store' = [store EXCEPT ![key] =
                              @ \o Entry(environ[p], page[p].page_string)]
               /\ origin' = [origin EXCEPT ![key] = Append(@, hist[p].down[1])]
               /\ hist' = [hist EXCEPT ![p].writes = @ + 1]
               /\ \E n \in Reads(page[p].rest) :
                     client' = [client EXCEPT ![p] =
                         [@ EXCEPT !.body = page[p].rest, !.source = "live",
                                   !.read = n]]

\* The Redis server becomes unreachable, and reachable again. What it stores
\* is kept.
RedisDown ==
    /\ UNCHANGED <<hookVars, i18nVars, trackVars, keyVars, pipeVars>>
    /\ redisUp
    /\ outages < MaxOutages
    /\ redisUp' = FALSE
    /\ outages' = outages + 1
    /\ UNCHANGED <<redis_connection, store, origin, pc, environ, page, client,
                   hist, nreq>>

RedisBack ==
    /\ UNCHANGED <<hookVars, i18nVars, trackVars, keyVars, pipeVars>>
    /\ ~redisUp
    /\ redisUp' = TRUE
    /\ UNCHANGED <<redis_connection, outages, store, origin, pc, environ, page,
                   client, hist, nreq>>

CacheNext ==
    \/ \E p \in Procs : \E r \in CacheRequests : Request(p, r)
    \/ \E p \in Procs : Connect(p)
    \/ \E p \in Procs : Flush(p)
    \/ \E p \in Procs : Flushdb(p)
    \/ \E p \in Procs : Except(p)
    \/ \E p \in Procs : ExceptApp(p)
    \/ \E p \in Procs : Lookup(p)
    \/ \E p \in Procs : Lrange(p)
    \/ \E p \in Procs : CallApp(p)
    \/ \E p \in Procs : Write(p)
    \/ \E p \in Procs : Execute(p)
    \/ RedisDown
    \/ RedisBack

SpecCache == CacheInit /\ [][CacheNext]_vars

\* ------------------------------------------------- properties of the cache
\* The entry that persisting the response d of self.app writes.
EntryOf(d) == <<d.status, JsonDumps(d.headers), Join(d.chunks)>>

\* The i-th entry pushed on the list of key k.
EntryAt(k, i) == SubSeq(store[k], 3 * i - 2, 3 * i)

\* The response c given to a caller has the status line, the header list and
\* the body of the response d of self.app.
Matches(c, d) ==
    /\ c.error = "none"
    /\ c.status = d.status
    /\ c.headers = d.headers
    /\ Join(c.body) = Join(d.chunks)

\* The requests the claims exempt from caching: the method is not GET, or
\* the request names an authenticated user (a REMOTE_USER that is not empty).
Exempt(env) ==
    \/ env["REQUEST_METHOD"] # "GET"
    \/ ("REMOTE_USER" \in DOMAIN env /\ env["REMOTE_USER"] # "")

\* A request that is over and went through lookup and self.app: a miss.
Missed(p) ==
    /\ pc[p] = "done"
    /\ hist[p].lookups = 1
    /\ hist[p].from = <<>>
    /\ hist[p].nextCalls = 1

\* C1 as stated: once a GET request without REMOTE_USER has received a
\* cachable 200 response from self.app, every later request for the same path
\* and query string is answered from the cache, with the status line, the
\* headers and the body of such a response.
C1_CachableAlwaysRetrievable ==
    \A p \in Procs :
        (pc[p] = "done" /\ ~Exempt(environ[p]) /\ hist[p].prior)
        => /\ client[p].source = "cache"
           /\ \E i \in 1..Len(hist[p].from) : Matches(client[p], hist[p].from[i])

\* C1 as amended: when the write of a cachable 200 response completed while
\* its key held no entry, every later request for that key whose lookup
\* succeeds before the store is flushed again is answered from the cache with
\* the status line, the header list and the body of that response.
C1_PersistedIsRetrievable ==
    [][\A p \in Procs :
         (/\ pc[p] = "lrange"
          /\ pc'[p] # "lrange"
          /\ redisUp
          /\ origin[CacheKey(environ[p])] # <<>>)
         => /\ client'[p].source = "cache"
            /\ hist'[p].nextCalls = 0
            /\ Matches(client'[p], origin[CacheKey(environ[p])][1])]_vars

\* C1 witness: a request that arrived after a cachable 200 response for its
\* key was answered from the cache, with a body of more than one chunk.
C1_Witness ==
    \E p \in Procs :
        /\ pc[p] = "done"
        /\ hist[p].prior
        /\ client[p].source = "cache"
        /\ Len(client[p].body) = 2

\* C2: a request that is not a GET, or that has a REMOTE_USER, is answered
\* by one call of self.app, with no lookup, no write and no reply from the
\* cache, and handling it changes neither the store nor the connection.
C2_BypassNeverTouchesCache ==
    /\ [](\A p \in Procs :
            (pc[p] # "idle" /\ Exempt(environ[p]))
            => /\ pc[p] = "done"
               /\ hist[p].nextCalls = 1
               /\ hist[p].lookups = 0
               /\ hist[p].writes = 0
               /\ hist[p].from = <<>>
               /\ client[p].source \in {"live", "error"}
               /\ (hist[p].down[1].raises = "no"
                   => Matches(client[p], hist[p].down[1])))
    /\ [][\A p \in Procs :
            (/\ nreq' = nreq + 1
             /\ \A q \in Procs \ {p} :
                   /\ pc'[q] = pc[q]
                   /\ environ'[q] = environ[q]
                   /\ hist'[q] = hist[q]
             /\ environ'[p] # <<>>
             /\ Exempt(environ'[p]))
            => /\ store' = store
               /\ origin' = origin
               /\ redis_connection' = redis_connection]_vars

\* C2 witness: a GET with a REMOTE_USER for a path whose page is in the
\* store was answered by self.app.
C2_Witness ==
    \E p \in Procs :
        /\ pc[p] = "done"
        /\ Truthy(environ[p], "REMOTE_USER")
        /\ store[CacheKey(environ[p])] # <<>>
        /\ client[p].source = "live"

\* Status code exactly 200: the status line is "200" or starts with "200 ".
Is200(status) ==
    /\ StartsWith(status, <<"2", "0", "0">>)
    /\ (Len(status) = 3 \/ status[4] = " ")

\* C3: every entry of the store was written for a response with status 200
\* whose request had the cachable flag set.
C3_OnlyCachable200Persisted ==
    /\ \A k \in Keys :
          /\ Len(store[k]) = 3 * Len(origin[k])
          /\ \A i \in 1..Len(origin[k]) :
                /\ EntryAt(k, i)[1] = origin[k][i].status
                /\ Is200(EntryAt(k, i)[1])
                /\ origin[k][i].cachable
    /\ \A p \in Procs :
          hist[p].writes > 0
          => /\ Is200(environ[p]["CKAN_PAGE_STATUS"])
             /\ Flagged(environ[p], "CKAN_PAGE_CACHABLE")

\* C3 witness: a miss answered with a cachable 404 and a miss answered with
\* a 200 that is not cachable, and nothing stored for their keys.
C3_Witness ==
    \E p, q \in Procs :
        /\ Missed(p) /\ Missed(q)
        /\ ~Is200(hist[p].down[1].status) /\ hist[p].down[1].cachable
        /\ Is200(hist[q].down[1].status) /\ ~hist[q].down[1].cachable
        /\ hist[q].down[1].raises = "no"
        /\ store[CacheKey(environ[p])] = <<>>
        /\ store[CacheKey(environ[q])] = <<>>

\* C4 as stated: when Redis fails under a request, the caller still gets the
\* status, the headers and the whole body of self.app, and no error.
C4_BackendFailureInvisible ==
    \A p \in Procs :
        (pc[p] = "done" /\ hist[p].failed)
        => /\ hist[p].nextCalls = 1
           /\ (hist[p].down[1].raises = "no"
               => /\ Matches(client[p], hist[p].down[1])
                  /\ client[p].body = hist[p].down[1].chunks)

\* C6 as stated: on a miss the caller gets exactly the chunks of the
\* iterable of self.app, in order, persisted or not.
C6_MissBodyUnchanged ==
    \A p \in Procs :
        (Missed(p) /\ client[p].source = "live")
        => client[p].body = Yields(hist[p].down[1])

\* C7 as stated: the last write completed for a key is what a lookup of the
\* key returns and what a hit replays.
C7_LastWriteWins ==
    /\ \A k \in Keys :
          origin[k] # <<>>
          => LRange02(store[k]) = EntryOf(origin[k][Len(origin[k])])
    /\ \A p \in Procs :
          hist[p].from # <<>>
          => Matches(client[p], hist[p].from[Len(hist[p].from)])

\* C7 as amended: the first write completed for a key since the last flush
\* is what every lookup of the key returns and what every hit replays; the
\* writes completed after it are pushed behind it on the list.
C7_FirstWriteWins ==
    /\ \A k \in Keys :
          origin[k] # <<>> => LRange02(store[k]) = EntryOf(origin[k][1])
    /\ \A p \in Procs :
          hist[p].from # <<>> => Matches(client[p], hist[p].from[1])

\* C7 witness: two misses wrote different responses for one key and a later
\* request for the key was answered from the cache.
C7_Witness ==
    \E p \in Procs :
        /\ pc[p] = "done"
        /\ client[p].source = "cache"
        /\ Len(hist[p].from) = 2
        /\ hist[p].from[1] # hist[p].from[2]
        /\ EntryOf(hist[p].from[1]) # EntryOf(hist[p].from[2])

\* C8: every body in the store is the whole body of the response it was
\* written for, a response whose page raised is never written, and a hit
\* replays the whole body of a response whose page did not raise.
C8_NoPartialBodyPersisted ==
    /\ \A k \in Keys : \A i \in 1..Len(origin[k]) :
          /\ 3 * i <= Len(store[k])
          /\ EntryAt(k, i)[3] = Join(origin[k][i].chunks)
          /\ origin[k][i].raises = "no"
    /\ \A p \in Procs :
          (hist[p].down # <<>> /\ hist[p].down[1].raises # "no")
          => hist[p].writes = 0
    /\ \A p \in Procs :
          hist[p].from # <<>>
          => \E i \in 1..Len(hist[p].from) :
                /\ hist[p].from[i].raises = "no"
                /\ Join(client[p].body) = Join(hist[p].from[i].chunks)

\* C8 witness: the page of a cachable 200 response raised while it was
\* buffered, and the store holds nothing for its key; and the caller of
\* another miss closed the page it was given before its end.
C8_Witness ==
    \E p, q \in Procs :
        /\ Missed(p)
        /\ hist[p].down[1].raises = "iter"
        /\ hist[p].down[1].cachable
        /\ client[p].error = "AppError"
        /\ store[CacheKey(environ[p])] = <<>>
        /\ Missed(q)
        /\ client[q].read < Len(client[q].body)

\* C12: in every state, between the steps of concurrent requests and after
\* a write that met an unreachable Redis included, the list of a key holds
\* whole entries only, each with the status, the headers and the body of one
\* response, so a lookup returns nothing or the three fields of one
\* response; and a hit replays the three fields of one response.
C12_EntryWholeOrAbsent ==
    /\ \A k \in Keys :
          /\ Len(store[k]) = 3 * Len(origin[k])
          /\ \A i \in 1..Len(origin[k]) : EntryAt(k, i) = EntryOf(origin[k][i])
          /\ \/ LRange02(store[k]) = <<>>
             \/ /\ Len(LRange02(store[k])) = 3
                /\ \E d \in Downstream : LRange02(store[k]) = EntryOf(d)
    /\ \A p \in Procs :
          (pc[p] = "done" /\ client[p].source = "cache")
          => \E d \in Downstream : Matches(client[p], d)

\* C12 witness: the write of a request met an unreachable Redis and left
\* nothing under its key, while the write of another request has put a
\* whole entry under another key.
C12_Witness ==
    \E p \in Procs :
        /\ pc[p] = "done"
        /\ client[p].error = "ConnectionError"
        /\ store[CacheKey(environ[p])] = <<>>
        /\ \E k \in Keys : Len(store[k]) = 3

\* C13: when the lookup of a request finds an entry, the caller is given the
\* stored status line, the stored header list, and chunks that are not empty,
\* hold at most 4096 characters each and make up the stored body when put
\* together in order; self.app is not called and nothing is stored.
C13_HitReplaysStoredEntry ==
    [][\A p \in Procs :
         LET result == LRange02(store[CacheKey(environ[p])])
         IN (/\ pc[p] = "lrange"
             /\ pc'[p] # "lrange"
             /\ redisUp
             /\ result # <<>>)
            => /\ pc'[p] = "done"
               /\ client'[p].error = "none"
               /\ client'[p].status = result[1]
               /\ JsonDumps(client'[p].headers) = result[2]
               /\ Join(client'[p].body) = result[3]
               /\ \A i \in 1..Len(client'[p].body) :
                     /\ RLen(client'[p].body[i]) > 0
                     /\ RLen(client'[p].body[i]) <= size
               /\ client'[p].read = Len(client'[p].body)
               /\ hist'[p].nextCalls = 0
               /\ hist'[p].writes = 0
               /\ store' = store]_vars

\* C13 witness: a request was answered from an entry whose body is longer
\* than 4096 characters, in a first chunk of 4096 and a shorter second one,
\* without a call of self.app.
C13_Witness ==
    \E p \in Procs :
        /\ pc[p] = "done"
        /\ client[p].source = "cache"
        /\ hist[p].nextCalls = 0
        /\ client[p].headers = HeadersA
        /\ Len(client[p].body) = 2
        /\ RLen(client[p].body[1]) = size
        /\ RLen(client[p].body[2]) < size

\* C15: when flushdb() on a new handle or lrange() meets an unreachable
\* Redis, the request goes to the except clause with nothing looked up or
\* stored; there the handle is cleared, and then the request is answered by
\* one call of self.app; a request that is not exempt and finds the handle
\* cleared creates a new handle and calls flushdb() on it; and when flushdb()
\* succeeds the store is empty and the request goes on to the lookup.
C15_FailureClearsHandleThenRetry ==
    [][\A p \in Procs :
         /\ (/\ pc[p] \in {"flushdb", "lrange"}
             /\ pc'[p] # pc[p]
             /\ ~redisUp)
            => /\ pc'[p] = "except"
               /\ hist'[p].failed
               /\ hist'[p].nextCalls = 0
               /\ hist'[p].lookups = 0
               /\ store' = store
         /\ (pc[p] = "except" /\ pc'[p] # "except")
            => /\ redis_connection' = "None"
               /\ pc'[p] = "except_app"
               /\ store' = store
         /\ (pc[p] = "except_app" /\ pc'[p] # "except_app")
            => /\ pc'[p] = "done"
               /\ hist'[p].failed
               /\ hist'[p].nextCalls = 1
               /\ hist'[p].lookups = 0
               /\ hist'[p].writes = 0
               /\ store' = store
               /\ client'[p].source \in {"live", "error"}
               /\ (hist'[p].down[1].raises = "no"
                   => Matches(client'[p], hist'[p].down[1]))
         /\ (/\ pc[p] \in {"idle", "done"}
             /\ pc'[p] \notin {"idle", "done"}
             /\ redis_connection = "None")
            => /\ ~Exempt(environ'[p])
               /\ pc'[p] = "connect"
         /\ (pc[p] = "connect" /\ pc'[p] # "connect")
            => /\ redis_connection' = "StrictRedis"
               /\ pc'[p] = "flush"
         /\ (/\ pc[p] = "flush"
             /\ pc'[p] # "flush"
             /\ redis_connection # "None")
            => pc'[p] = "flushdb"
         /\ (/\ pc[p] = "flushdb"
             /\ pc'[p] # "flushdb"
             /\ redisUp)
            => /\ redis_connection' = redis_connection
               /\ pc'[p] = "lookup"
               /\ \A k \in Keys : store'[k] = <<>>]_vars

\* C15 witness: Redis was unreachable from the start, a request met the
\* failure and was answered by self.app, Redis came back, and a request
\* after that is answered from the cache.
C15_Witness ==
    /\ outages = 0
    /\ redisUp
    /\ redis_connection = "StrictRedis"
    /\ \E p, q \in Procs :
          /\ pc[q] = "done"
          /\ hist[q].failed
          /\ client[q].source = "live"
          /\ pc[p] = "done"
          /\ client[p].source = "cache"

\* C16 as stated: under every interleaving of concurrent requests that share
\* the handle, a request under which Redis itself did not fail ends with the
\* response of self.app or with the cached response, and not in an error
\* that self.app did not raise.
C16_ConcurrentRequestsNeverFail ==
    \A p \in Procs :
        (pc[p] = "done" /\ ~hist[p].failed)
        => /\ client[p].source \in {"live", "cache", "error"}
           /\ client[p].error \in {"none", "AppError"}
           /\ (client[p].error = "AppError"
               => /\ hist[p].down # <<>>
                  /\ hist[p].down[1].raises # "no")

\* ------------------------------------------- the cache after a restart
\* The Redis server outlives the process: when the middleware is constructed
\* the database may hold the entries an earlier process has written. Here it
\* holds one, for GET /a, of a page that the application no longer returns.
EarlierPage == Resp(Status200, HeadersB, TRUE, <<ChunkX>>, FALSE, "no", 0)

RestartInit ==
    /\ redis_connection = "None"
    /\ redisUp = TRUE
    /\ outages = 0
    /\ store = [k \in Keys |-> IF k = CacheKey([PATH_INFO |-> PathA,
                                                  QUERY_STRING |-> <<>>])
                                THEN EntryOf(EarlierPage) ELSE <<>>]
    /\ origin = [k \in Keys |-> IF store[k] = <<>> THEN <<>>
                                 ELSE <<EarlierPage>>]
    /\ pc = [p \in Procs |-> "idle"]
    /\ environ = [p \in Procs |-> <<>>]
    /\ page = [p \in Procs |-> NoPage]
    /\ client = [p \in Procs |-> NoClient]
    /\ hist = [p \in Procs |-> NoHist]
    /\ nreq = 0
    /\ HookIdle /\ I18nIdle /\ TrackIdle /\ KeyIdle /\ PipeIdle

SpecRestart == RestartInit /\ [][CacheNext]_vars

\* C14 as stated: the store is reset when the connection is established,
\* before any lookup on the new connection, so no request is answered from
\* an entry that was in the store before the connection was established.
C14_NoHitFromEarlierEntry ==
    \A p \in Procs :
        /\ client[p].source = "cache" => ~Matches(client[p], EarlierPage)
        /\ EarlierPage \notin { hist[p].from[i] : i \in 1..Len(hist[p].from) }

\* ------------------------------------------------- execute_on_completion
\* All sequences over S of length at most n.
SeqsUpTo(S, n) == UNION { [1..k -> S] : k \in 0..n }

\* What the application wrapped by execute_on_completion may do: raise when
\* called, or return an iterable, with or without a close method, that
\* yields its chunks or raises after raiseAt of them.
HookIterables ==
    { it \in [chunks : SeqsUpTo({"a", "b"}, MaxChunks), hasClose : BOOLEAN,
              raises : {"no", "call", "iter"}, raiseAt : 0..MaxChunks] :
        IF it.raises = "iter" THEN it.raiseAt <= Len(it.chunks)
        ELSE it.raiseAt = 0 }

HookInit ==
    /\ hkIter \in HookIterables
    /\ hkGen = "none"
    /\ hkGot = <<>>
    /\ hkCallbacks = 0
    /\ hkCloses = 0
    /\ hkError = "none"
    /\ hkLog = <<>>
    /\ CacheIdle /\ I18nIdle /\ TrackIdle /\ KeyIdle /\ PipeIdle

\* callback(environ)
RunCallback ==
    /\ hkCallbacks' = hkCallbacks + 1

\* Mutant of HookCall: an error of the application is swallowed after the
\* callback has run.
HookCallSwallows ==
    /\ hkGen = "none"
    /\ hkError = "none"
    /\ UNCHANGED <<cacheVars, i18nVars, trackVars, keyVars, pipeVars>>
    /\ UNCHANGED <<hkIter, hkGot, hkCloses, hkError>>
    /\ IF hkIter.raises = "call"
       THEN /\ RunCallback
            /\ hkLog' = <<"application", "callback">>
            /\ hkGen' = "finished"
       ELSE /\ hkGen' = "created"
            /\ hkLog' = <<"application">>
            /\ UNCHANGED hkCallbacks

\* inner(environ, start_response), lines 306-312: the application is called;
\* if it raises the callback runs and the error is raised again, otherwise
\* the generator is created. Creating a generator runs none of its body.
HookCall ==
    /\ hkGen = "none"
    /\ hkError = "none"
    /\ UNCHANGED <<cacheVars, i18nVars, trackVars, keyVars, pipeVars>>
    /\ UNCHANGED <<hkIter, hkGot, hkCloses>>
    /\ IF hkIter.raises = "call"
       THEN /\ RunCallback
            /\ hkLog' = <<"application", "callback", "raise">>
            /\ hkError' = "AppError"
            /\ UNCHANGED hkGen
       ELSE /\ hkGen' = "created"
            /\ hkLog' = <<"application">>
            /\ UNCHANGED <<hkCallbacks, hkError>>

\* next() on the generator, lines 291-293 and 298-299: the generator runs to
\* its next yield; when the iterable ends or raises, the finally clause runs
\* the callback, and an error of the iterable goes on to the consumer; the
\* generator is finished.
GenNext ==
    /\ hkGen \in {"created", "suspended"}
    /\ UNCHANGED <<cacheVars, i18nVars, trackVars, keyVars, pipeVars>>
    /\ UNCHANGED <<hkIter, hkCloses>>
    /\ LET pos == Len(hkGot)
           avail == IF hkIter.raises = "iter" THEN hkIter.raiseAt
                    ELSE Len(hkIter.chunks)
       IN IF pos < avail
          THEN /\ hkGot' = Append(hkGot, hkIter.chunks[pos + 1])
               /\ hkGen' = "suspended"
               /\ UNCHANGED <<hkCallbacks, hkError, hkLog>>
          ELSE /\ RunCallback
               /\ hkLog' = hkLog \o <<"callback">>
                           \o (IF hkIter.raises = "iter" THEN <<"raise">>
                               ELSE <<>>)
               /\ hkError' = IF hkIter.raises = "iter" THEN "AppError" ELSE "none"
               /\ hkGen' = "finished"
               /\ UNCHANGED hkGot

\* close() on the generator, lines 294-299. On a generator suspended at its
\* yield, GeneratorExit is raised there: the iterable is closed if it has a
\* close method, and the finally clause runs the callback. A generator that
\* has not started is finished without running any of its body, and a
\* finished generator ignores close().
GenClose ==
    /\ hkGen \in {"created", "suspended", "finished"}
    /\ \A i \in 1..Len(hkLog) : hkLog[i] # "close"
    /\ UNCHANGED <<cacheVars, i18nVars, trackVars, keyVars, pipeVars>>
    /\ UNCHANGED <<hkIter, hkGot, hkError>>
    /\ hkGen' = "finished"
    /\ IF hkGen = "suspended"
       THEN /\ hkCloses' = IF hkIter.hasClose THEN hkCloses + 1 ELSE hkCloses
            /\ RunCallback
            /\ hkLog' = hkLog \o <<"close">>
                        \o (IF hkIter.hasClose THEN <<"iterable.close">> ELSE <<>>)
                        \o <<"callback">>
       ELSE /\ hkLog' = Append(hkLog, "close")
            /\ UNCHANGED <<hkCallbacks, hkCloses>>

HookNext == HookCall \/ GenNext \/ GenClose

SpecHook == HookInit /\ [][HookNext]_vars

\* The request given to the hook is over: the application raised when it
\* was called, or the generator is finished (drained, closed, or raised).
HookOver == (hkGen = "none" /\ hkError # "none") \/ hkGen = "finished"

\* C5 as stated: when the request is over, whether the stream was drained,
\* closed after any prefix of its chunks, raised, or the application raised
\* before returning it, the callback has run exactly once; and it never has
\* run twice.
C5_CallbackExactlyOnce ==
    /\ hkCallbacks <= 1
    /\ HookOver => hkCallbacks = 1

\* The calls logged under a name.
HookCount(name) == Cardinality({ i \in 1..Len(hkLog) : hkLog[i] = name })

\* C17: when the application raises, as it is called or while its iterable
\* is iterated, the callback has run once, and it ran before the error left
\* the hook; the error that reaches the consumer is the error of the
\* application; the application was called once; and the hook raises no
\* error of its own.
C17_ErrorPropagatesAfterCallback ==
    /\ hkError # "none"
       => /\ hkError = "AppError"
          /\ hkIter.raises # "no"
          /\ hkCallbacks = 1
          /\ \E i \in 2..(Len(hkLog) - 1) :
                hkLog[i] = "callback" /\ hkLog[i + 1] = "raise"
          /\ HookCount("application") = 1
          /\ HookCount("callback") = 1
          /\ HookCount("raise") = 1
          /\ hkGot = SubSeq(hkIter.chunks, 1, hkIter.raiseAt)
    /\ (hkIter.raises = "call" /\ hkLog # <<>>) => hkError = "AppError"
    /\ (/\ hkIter.raises = "iter"
        /\ hkGen = "finished"
        /\ \E i \in 1..Len(hkLog) :
              hkLog[i] = "callback" /\ \A j \in 1..i : hkLog[j] # "close")
       => hkError = "AppError"

\* C17 witness: the iterable raised after its first chunk, the consumer has
\* that chunk and the error, and the callback has run.
C17_Witness ==
    /\ hkIter.raises = "iter"
    /\ hkIter.raiseAt = 1
    /\ Len(hkGot) = 1
    /\ hkError = "AppError"
    /\ hkCallbacks = 1

\* C18 as stated: when the consumer has closed the generator before its
\* end, after any number of chunks (none included), the close method of the
\* iterable, when it has one, has been called once, and before the callback;
\* and the chunks the consumer has are the first chunks of the iterable,
\* unchanged and in order.
C18_EarlyCloseReachesProducer ==
    (\E i \in 1..Len(hkLog) :
        hkLog[i] = "close" /\ \A j \in 1..i : hkLog[j] # "callback")
    => /\ hkGot = SubSeq(hkIter.chunks, 1, Len(hkGot))
       /\ hkIter.hasClose
          => /\ hkCloses = 1
             /\ \A j \in 1..Len(hkLog) :
                   hkLog[j] = "callback"
                   => \E i \in 1..j : hkLog[i] = "iterable.close"

\* ------------------------------------------------------- I18nMiddleware
\* self.local_list = get_locales_from_config(), and
\* self.default_locale = config.get('ckan.locale_default', 'en')
LocaleList == { <<"f", "r">>, <<"e", "n">>, <<"r">> }
DefaultLocale == <<"e", "n">>

\* The characters of the paths given to the middleware.
PathChars == {"/", "f", "r", " "}

\* PATH_INFO as a WSGI server gives it: empty, or starting with '/'.
I18nPaths ==
    { p \in SeqsUpTo(PathChars, MaxPathLen) : p = <<>> \/ p[1] = "/" }

\* The environ of a request that arrives: QUERY_STRING may be absent.
I18nRequests ==
    { [PATH_INFO |-> p] : p \in I18nPaths }
    \cup
    { [PATH_INFO |-> p, QUERY_STRING |-> q] :
        p \in I18nPaths, q \in { <<>>, <<"f", "=", " ">> } }

I18nInit ==
    /\ i18nEnv \in I18nRequests
    /\ i18nOrig = i18nEnv
    /\ i18nCalls = 0
    /\ CacheIdle /\ HookIdle /\ TrackIdle /\ KeyIdle /\ PipeIdle

\* Mutant of RewritePath: the locale segment is kept in the path.
RewritePathKeepLocale(path_parts) ==
    IF Len(path_parts) > 2
    THEN JoinWith(<< <<>> >> \o SubSeq(path_parts, 2, Len(path_parts)), "/")
    ELSE <<"/">>

\* lines 133-136: '/'.join([''] + path_parts[2:]), or '/'
RewritePath(path_parts) ==
    IF Len(path_parts) > 2
    THEN JoinWith(<< <<>> >> \o SubSeq(path_parts, 3, Len(path_parts)), "/")
    ELSE <<"/">>

\* lines 128-139: the language selected and the path rewritten
SelectLanguage(env) ==
    LET path_parts == Split(env["PATH_INFO"], "/")
    IN IF Len(path_parts) > 1 /\ path_parts[2] \in LocaleList
       THEN SetKey(SetKey(SetKey(env, "CKAN_LANG", path_parts[2]),
                          "CKAN_LANG_IS_DEFAULT", FALSE),
                   "PATH_INFO", RewritePath(path_parts))
       ELSE SetKey(SetKey(env, "CKAN_LANG", DefaultLocale),
                   "CKAN_LANG_IS_DEFAULT", TRUE)

\* The parts of a path, each quoted: [urllib.quote(pce, '') for pce in ...]
QuoteEach(parts) == [i \in 1..Len(parts) |-> Quote(parts[i])]

\* lines 141-153: the current application url
CurrentUrl(env) ==
    LET path_info == JoinWith(QuoteEach(Split(env["PATH_INFO"], "/")), "/")
    IN IF HasKey(env, "QUERY_STRING") /\ env["QUERY_STRING"] # <<>>
       THEN path_info \o <<"?">> \o Quote(env["QUERY_STRING"])
       ELSE path_info

\* Mutant of I18nCall: the language is selected on every pass.
I18nCallEveryPass ==
    /\ i18nCalls < MaxDispatch
    /\ UNCHANGED <<cacheVars, hookVars, trackVars, keyVars, pipeVars>>
    /\ UNCHANGED i18nOrig
    /\ i18nEnv' = LET env == SelectLanguage(i18nEnv)
                  IN SetKey(env, "CKAN_CURRENT_URL", CurrentUrl(env))
    /\ i18nCalls' = i18nCalls + 1

\* I18nMiddleware.__call__, lines 118-155
I18nCall ==
    /\ i18nCalls < MaxDispatch
    /\ UNCHANGED <<cacheVars, hookVars, trackVars, keyVars, pipeVars>>
    /\ UNCHANGED i18nOrig
    /\ i18nEnv' =
          IF ~HasKey(i18nEnv, "CKAN_LANG")
          THEN LET env == SelectLanguage(i18nEnv)
               IN SetKey(env, "CKAN_CURRENT_URL", CurrentUrl(env))
          ELSE i18nEnv
    /\ i18nCalls' = i18nCalls + 1

I18nNext == I18nCall

SpecI18n == I18nInit /\ [][I18nNext]_vars

\* The first segment of a path that is not empty, as a set: empty when the
\* path has none.
FirstNonEmpty(path) ==
    { seg \in SeqsUpTo(PathChars \ {"/"}, MaxPathLen) :
        /\ seg # <<>>
        /\ \E k \in 1..Len(path) :
              /\ \A h \in 1..k : path[h] = "/"
              /\ k + Len(seg) <= Len(path)
              /\ SubSeq(path, k + 1, k + Len(seg)) = seg
              /\ (k + Len(seg) = Len(path) \/ path[k + Len(seg) + 1] = "/") }

\* What is left of a path after its first n characters, '/' when that is
\* empty or '/': the remainder after the locale segment.
Remainder(path, n) ==
    IF Len(path) <= n + 1 THEN <<"/">> ELSE SubSeq(path, n + 1, Len(path))

\* The slashes before the first segment of a path that is not empty.
LeadingSlashes(path) ==
    CHOOSE k \in 0..Len(path) :
        /\ \A h \in 1..k : path[h] = "/"
        /\ (k = Len(path) \/ path[k + 1] # "/")

\* C9 as stated: exactly when the first non-empty segment of the path is a
\* locale, it is the language, marked explicit, and the path becomes the
\* remainder after it ('/' when empty); otherwise the language is the
\* default, marked implicit, and the path is unchanged.
C9_FirstNonEmptySegment ==
    i18nCalls >= 1 =>
      LET path == i18nOrig["PATH_INFO"]
          locs == FirstNonEmpty(path) \cap LocaleList
      IN IF locs # {}
         THEN \A loc \in locs :
                /\ i18nEnv["CKAN_LANG"] = loc
                /\ i18nEnv["CKAN_LANG_IS_DEFAULT"] = FALSE
                /\ i18nEnv["PATH_INFO"] =
                      Remainder(path, LeadingSlashes(path) + Len(loc))
         ELSE /\ i18nEnv["CKAN_LANG"] = DefaultLocale
              /\ i18nEnv["CKAN_LANG_IS_DEFAULT"] = TRUE
              /\ i18nEnv["PATH_INFO"] = path

\* The path starts with '/', the locale loc, and then ends or goes on with
\* '/': loc is the segment between the first and the second '/'.
SecondPart(path, loc) ==
    /\ Len(path) >= 1 + Len(loc)
    /\ SubSeq(path, 1, 1 + Len(loc)) = <<"/">> \o loc
    /\ (Len(path) = 1 + Len(loc) \/ path[2 + Len(loc)] = "/")

\* C9 as amended: exactly when the segment that directly follows the leading
\* '/' of the path is a locale, it is the language, marked explicit, and the
\* path becomes the remainder after it ('/' when empty); in every other
\* case, a path that starts with '//' included, the language is the default,
\* marked implicit, and the path is unchanged.
C9_SegmentAfterLeadingSlash ==
    i18nCalls >= 1 =>
      LET path == i18nOrig["PATH_INFO"]
          locs == { loc \in LocaleList : SecondPart(path, loc) }
      IN IF locs # {}
         THEN \A loc \in locs :
                /\ i18nEnv["CKAN_LANG"] = loc
                /\ i18nEnv["CKAN_LANG_IS_DEFAULT"] = FALSE
                /\ i18nEnv["PATH_INFO"] = Remainder(path, 1 + Len(loc))
         ELSE /\ i18nEnv["CKAN_LANG"] = DefaultLocale
              /\ i18nEnv["CKAN_LANG_IS_DEFAULT"] = TRUE
              /\ i18nEnv["PATH_INFO"] = path

\* C9 witness: /fr/r was resolved to fr with the path /r, and the path
\* rewritten is not the path that arrived.
C9_Witness ==
    /\ i18nCalls >= 1
    /\ i18nOrig["PATH_INFO"] = <<"/", "f", "r", "/", "r">>
    /\ i18nEnv["CKAN_LANG"] = <<"f", "r">>
    /\ i18nEnv["CKAN_LANG_IS_DEFAULT"] = FALSE
    /\ i18nEnv["PATH_INFO"] = <<"/", "r">>

\* ------------------------------------------------------ nested dispatch
\* An environ that has passed through the middleware once and comes back:
\* the application below has dispatched it again, with the PATH_INFO it has
\* then, which may be the one the first pass left or another one.
NestedPaths == { <<"/", "f", "r", "/", "r">>, <<"/", "r">>, <<>> }

\* The environ of a request after its first pass, lines 127-153.
Resolved(env) ==
    SetKey(SelectLanguage(env), "CKAN_CURRENT_URL",
           CurrentUrl(SelectLanguage(env)))

NestedRequests ==
    { Resolved(r) : r \in I18nRequests }
    \cup
    { SetKey(Resolved(r), "PATH_INFO", p) :
        r \in I18nRequests, p \in NestedPaths }

NestedInit ==
    /\ i18nEnv \in NestedRequests
    /\ i18nOrig = i18nEnv
    /\ i18nCalls = 1
    /\ CacheIdle /\ HookIdle /\ TrackIdle /\ KeyIdle /\ PipeIdle

SpecNested == NestedInit /\ [][I18nNext]_vars

\* C19: an environ that already has CKAN_LANG passes through the middleware
\* with its language, its default flag, its path, its current url and every
\* other key unchanged, whatever its path is then, and self.app is called
\* with it.
C19_ResolvedRequestUntouched ==
    [][HasKey(i18nEnv, "CKAN_LANG")
       => /\ i18nEnv' = i18nEnv
          /\ i18nEnv'["CKAN_LANG"] = i18nOrig["CKAN_LANG"]
          /\ i18nEnv'["CKAN_LANG_IS_DEFAULT"] = i18nOrig["CKAN_LANG_IS_DEFAULT"]
          /\ i18nEnv'["PATH_INFO"] = i18nOrig["PATH_INFO"]
          /\ i18nEnv'["CKAN_CURRENT_URL"] = i18nOrig["CKAN_CURRENT_URL"]
          /\ i18nCalls' = i18nCalls + 1]_vars

\* C19 witness: an environ resolved to the default language came back with
\* the path /fr/r, which a first pass would rewrite, and went through a
\* second time with the default language and that path.
C19_Witness ==
    /\ i18nCalls = 2
    /\ i18nEnv["PATH_INFO"] = <<"/", "f", "r", "/", "r">>
    /\ i18nEnv["CKAN_LANG"] = DefaultLocale
    /\ i18nEnv["CKAN_LANG_IS_DEFAULT"] = TRUE
    /\ i18nEnv["CKAN_CURRENT_URL"] = <<"/">>

\* ----------------------------------------------------- TrackingMiddleware
\* The parts of the payloads given to the tracker.
UrlKey == <<"u", "r", "l">>
TypeKey == <<"t", "y", "p", "e">>
PayloadParts ==
    { UrlKey \o <<"=", "%", "2", "F", "x">>,
      UrlKey \o <<"=", "x", "%", "3", "D", "%">>,
      TypeKey \o <<"=", "%", "7", "6">>,
      TypeKey \o <<"=", "e">>,
      TypeKey \o <<"=", "%", "E", "9">>,
      UrlKey,
      UrlKey \o <<"=", "x", "=", "x">> }

\* The payloads: one part, or two parts joined by '&'; and the empty one.
Payloads ==
    { <<>> } \cup PayloadParts
    \cup { a \o <<"&">> \o b : a \in PayloadParts, b \in PayloadParts }

\* The header fields of the requests; HTTP_USER_AGENT, HTTP_ACCEPT_LANGUAGE
\* and HTTP_ACCEPT_ENCODING are absent when the client sent none.
TrackHeaders ==
    { [REMOTE_ADDR |-> <<"1">>] }
    \cup { [REMOTE_ADDR |-> <<"1">>, HTTP_USER_AGENT |-> ua] :
             ua \in { <<"m">>, <<"m", "z">> } }
    \cup { [REMOTE_ADDR |-> <<"1">>, HTTP_USER_AGENT |-> <<"m">>,
            HTTP_ACCEPT_LANGUAGE |-> <<"e">>],
           [REMOTE_ADDR |-> <<"1">>, HTTP_USER_AGENT |-> <<"m">>,
            HTTP_ACCEPT_LANGUAGE |-> <<"e">>, HTTP_ACCEPT_ENCODING |-> <<"g">>] }

TrackingPath == <<"/", "_", "t", "r", "a", "c", "k", "i", "n", "g">>

\* The requests given to the tracker: the payload is what wsgi.input holds.
TrackRequests ==
    { h @@ [PATH_INFO |-> TrackingPath, REQUEST_METHOD |-> "POST", payload |-> b] :
        h \in TrackHeaders, b \in Payloads }
    \cup
    { [REMOTE_ADDR |-> <<"1">>, HTTP_USER_AGENT |-> <<"m">>, PATH_INFO |-> p,
       REQUEST_METHOD |-> m, payload |-> UrlKey \o <<"=", "x">>] :
        p \in {TrackingPath, PathA}, m \in {"GET", "POST"} }

\* The response to a request: what start_response was given, the body
\* returned, the error raised, and whether the request was passed on to
\* self.app (next), whose response is then the response.
NoResp == [status |-> <<>>, headers |-> <<>>, body |-> <<>>, error |-> "none",
           returned |-> FALSE, next |-> FALSE]

TrackInit ==
    /\ trkEnv = <<>>
    /\ trkRows = <<>>
    /\ trkResp = NoResp
    /\ trkBefore = 0
    /\ trkLog = <<>>
    /\ trkCount = 0
    /\ CacheIdle /\ HookIdle /\ I18nIdle /\ KeyIdle /\ PipeIdle

\* lines 262-266: the parts are handled one after the other. For a part,
\* k, v = part.split('=') raises ValueError unless the part splits in two,
\* and then urllib2.unquote(v).decode("utf8") raises UnicodeDecodeError
\* unless the value decodes; the next part is looked at only after that.
PartsOf(payload) == Split(payload, "&")
PartError(part) ==
    IF Len(Split(part, "=")) # 2 THEN "ValueError"
    ELSE IF ~DecodesUtf8(Unquote(Split(part, "=")[2])) THEN "UnicodeDecodeError"
    ELSE "none"

\* The error that ends the loop over the parts from the i-th on: the error
\* of the first part that has one, "none" when the loop runs to its end.
RECURSIVE LoopError(_, _)
LoopError(parts, i) ==
    IF i > Len(parts) THEN "none"
    ELSE IF PartError(parts[i]) # "none" THEN PartError(parts[i])
    ELSE LoopError(parts, i + 1)

\* data.get(k) after the loop: the value of the last part whose key is k,
\* None (here <<"None">>, which no payload value is) when there is none
DataGet(payload, k) ==
    LET parts == PartsOf(payload)
        at == { i \in 1..Len(parts) : Split(parts[i], "=")[1] = k }
    IN IF at = {} THEN <<"None">>
       ELSE LET last == CHOOSE i \in at : \A j \in at : j <= i
            IN Unquote(Split(parts[last], "=")[2])

\* environ.get(k, '')
GetOrEmpty(env, k) == IF HasKey(env, k) THEN env[k] ELSE <<>>

\* lines 270-276: hashlib.md5(''.join([...])).hexdigest(); the digest is a
\* function of the joined text, written as the text it digests.
UserKey(env) ==
    [md5 |-> env["HTTP_USER_AGENT"] \o env["REMOTE_ADDR"]
             \o GetOrEmpty(env, "HTTP_ACCEPT_LANGUAGE")
             \o GetOrEmpty(env, "HTTP_ACCEPT_ENCODING")]

\* TrackingMiddleware.__call__, lines 255-283. The first part that does not
\* unpack or whose value does not decode raises before start_response is
\* called;
\* a request without User-Agent raises a KeyError after it.
Track(r) ==
    /\ trkCount < MaxTracked
    /\ UNCHANGED <<cacheVars, hookVars, i18nVars, keyVars, pipeVars>>
    /\ trkCount' = trkCount + 1
    /\ trkEnv' = r
    /\ trkBefore' = Len(trkRows)
    /\ IF r["PATH_INFO"] = TrackingPath /\ r["REQUEST_METHOD"] = "POST"
       THEN IF LoopError(PartsOf(r["payload"]), 1) # "none"
            THEN /\ trkResp' = [NoResp EXCEPT
                                  !.error = LoopError(PartsOf(r["payload"]), 1)]
                 /\ UNCHANGED <<trkRows, trkLog>>
            ELSE LET started ==
                       [NoResp EXCEPT
                          !.status = Status200,
                          !.headers = << <<"Content-Type", "text/html">> >>]
                 IN IF ~HasKey(r, "HTTP_USER_AGENT")
                    THEN /\ trkResp' = [started EXCEPT !.error = "KeyError"]
                         /\ UNCHANGED <<trkRows, trkLog>>
                    ELSE /\ trkRows' = Append(trkRows,
                               [user_key |-> UserKey(r),
                                url |-> DataGet(r["payload"], UrlKey),
                                tracking_type |-> DataGet(r["payload"], TypeKey)])
                         /\ trkLog' = Append(trkLog, r)
                         /\ trkResp' = [started EXCEPT !.returned = TRUE]
       ELSE /\ trkResp' = [NoResp EXCEPT !.returned = TRUE, !.next = TRUE]
            /\ UNCHANGED <<trkRows, trkLog>>

TrackNext == \E r \in TrackRequests : Track(r)

SpecTracking == TrackInit /\ [][TrackNext]_vars

\* Well-formed payloads with a url and a type, and the values they carry
\* once percent-decoded.
WellFormed ==
    { [payload |-> UrlKey \o <<"=">> \o u[1] \o <<"&">> \o TypeKey \o <<"=">> \o t[1],
       url |-> u[2], type |-> t[2]] :
        u \in { << <<"%", "2", "F", "x">>, <<"/", "x">> >>,
                 << <<"x", "%", "3", "D", "%">>, <<"x", "=", "%">> >> },
        t \in { << <<"%", "7", "6">>, <<"v">> >>, << <<"e">>, <<"e">> >> } }

\* Two requests with the same user-agent, remote address, accept-language
\* and accept-encoding.
SameVisitor(e1, e2) ==
    \A k \in {"HTTP_USER_AGENT", "REMOTE_ADDR", "HTTP_ACCEPT_LANGUAGE",
               "HTTP_ACCEPT_ENCODING"} :
        /\ (k \in DOMAIN e1) = (k \in DOMAIN e2)
        /\ (k \in DOMAIN e1 => e1[k] = e2[k])

\* C10 as stated: a POST to /_tracking with a well-formed payload appends
\* exactly one row, with the decoded url and type, is answered 200 OK with
\* an empty body and without error, and is not passed on to self.app; two
\* requests with the same four header fields get the same user_key.
C10_TrackingAppendsOneRow ==
    /\ \A w \in WellFormed :
          (/\ trkCount >= 1
           /\ trkEnv["PATH_INFO"] = TrackingPath
           /\ trkEnv["REQUEST_METHOD"] = "POST"
           /\ trkEnv["payload"] = w.payload)
          => /\ trkResp.error = "none"
             /\ trkResp.returned
             /\ ~trkResp.next
             /\ trkResp.status = Status200
             /\ trkResp.body = <<>>
             /\ Len(trkRows) = trkBefore + 1
             /\ trkRows[Len(trkRows)].url = w.url
             /\ trkRows[Len(trkRows)].tracking_type = w.type
    /\ \A i, j \in 1..Len(trkRows) :
          SameVisitor(trkLog[i], trkLog[j])
          => trkRows[i].user_key = trkRows[j].user_key

\* ------------------------------------------------------------ the cache key
\* The requests a key is made for: PATH_INFO is empty or starts with '/' and
\* is already percent-decoded, so it may hold a '?'; QUERY_STRING is the raw
\* text after the first '?' of the URL, which may hold further '?'.
KeyPaths ==
    { p \in SeqsUpTo({"/", "r", "?"}, MaxKeyPath) : p = <<>> \/ p[1] = "/" }
KeyQueries == SeqsUpTo({"r", "?"}, MaxKeyQuery)
KeyRequests ==
    { [REQUEST_METHOD |-> "GET", PATH_INFO |-> p, QUERY_STRING |-> q,
       HTTP_ACCEPT_LANGUAGE |-> l] :
        p \in KeyPaths, q \in KeyQueries, l \in {"en", "fr"} }

KeyInit ==
    /\ keyReqs \in { <<a, b>> : a \in { r \in KeyRequests :
                                           r["HTTP_ACCEPT_LANGUAGE"] = "en" },
                                 b \in KeyRequests }
    /\ keyOut = <<>>
    /\ CacheIdle /\ HookIdle /\ I18nIdle /\ TrackIdle /\ PipeIdle

\* __call__, line 187, for each of the two requests. make_app wraps
\* I18nMiddleware in PageCacheMiddleware (lines 97-101), so the PATH_INFO
\* the key is made of is the path as it arrived, locale segment included.
KeyCall ==
    /\ keyOut = <<>>
    /\ keyOut' = <<CacheKey(keyReqs[1]), CacheKey(keyReqs[2])>>
    /\ UNCHANGED keyReqs
    /\ UNCHANGED <<cacheVars, hookVars, i18nVars, trackVars, pipeVars>>

KeyNext == KeyCall

SpecKey == KeyInit /\ [][KeyNext]_vars

\* C11 as stated: the key of a request is 'page:', its path as it arrived,
\* '?' and its query string, and two requests have the same key exactly when
\* they have the same path and the same query string, whatever their
\* headers.
C11_SameKeyIffSamePathAndQuery ==
    keyOut # <<>> =>
      /\ \A i \in 1..2 :
            keyOut[i] = <<"p", "a", "g", "e", ":">> \o keyReqs[i]["PATH_INFO"]
                        \o <<"?">> \o keyReqs[i]["QUERY_STRING"]
      /\ (keyOut[1] = keyOut[2])
         <=> (/\ keyReqs[1]["PATH_INFO"] = keyReqs[2]["PATH_INFO"]
              /\ keyReqs[1]["QUERY_STRING"] = keyReqs[2]["QUERY_STRING"])

\* ------------------------------------------------- the composed pipeline
\* make_app, lines 73-74 and 97-101: the core application is wrapped by
\* execute_on_completion, and PageCacheMiddleware is wrapped around that, so
\* the page the cache gets from self.app is the generator of
\* generate_close_and_callback. One request goes through; Redis is reachable,
\* the handle is set and the store holds nothing for the key.
\*
\* What the core application does for the request: it calls start_response
\* with a status, may set CKAN_PAGE_CACHABLE, and returns its chunks.
PipeRequests ==
    [REQUEST_METHOD : {"GET", "POST"},
     status : {Status200, Status404},
     cachable : BOOLEAN,
     chunks : SeqsUpTo({ChunkX, ChunkY}, MaxChunks)]

PipeInit ==
    /\ plReq \in PipeRequests
    /\ plPc = "idle"
    /\ plGen = "none"
    /\ plSent = <<>>
    /\ plStore = <<>>
    /\ plLog = <<>>
    /\ CacheIdle /\ HookIdle /\ I18nIdle /\ TrackIdle /\ KeyIdle

\* The environ of the request when self.app has returned, lines 175-179.
PipeEnviron ==
    LET env0 == [REQUEST_METHOD |-> plReq.REQUEST_METHOD, PATH_INFO |-> PathA,
                 QUERY_STRING |-> <<>>]
        env1 == IF plReq.cachable
                THEN SetKey(env0, "CKAN_PAGE_CACHABLE", TRUE) ELSE env0
    IN IF Bypass(env0) THEN env1
       ELSE SetKey(SetKey(env1, "CKAN_PAGE_STATUS", plReq.status),
                   "CKAN_PAGE_HEADERS", HeadersA)

\* PageCacheMiddleware.__call__ on a miss, lines 181-246, over inner, lines
\* 306-312. inner returns the generator, not started. A request that is
\* exempt, or whose response is not a cachable 200, gets that generator as it
\* is. Otherwise ''.join(list(page)) runs the generator to its end inside
\* the cache, so its finally clause runs the callback there; the entry is
\* written and the generator, now finished, is returned.
PipeCall ==
    /\ plPc = "idle"
    /\ plPc' = "returned"
    /\ UNCHANGED <<plReq, plSent>>
    /\ UNCHANGED <<cacheVars, hookVars, i18nVars, trackVars, keyVars>>
    /\ IF Bypass(PipeEnviron) \/ ~ShouldCache(PipeEnviron)
       THEN /\ plGen' = "created"
            /\ UNCHANGED <<plStore, plLog>>
       ELSE /\ plGen' = "finished"
            /\ plLog' = Append(plLog, "callback")
            /\ plStore' = plStore \o Entry(PipeEnviron, Join(plReq.chunks))

\* The caller of the pipeline calls next() on what it was given, lines
\* 291-293 and 298-299: the next chunk of the core application, or, at the
\* end of the iterable, the callback and the end of the generator. A
\* finished generator yields nothing.
PipeNextChunk ==
    /\ plPc = "returned"
    /\ UNCHANGED <<plReq, plStore>>
    /\ UNCHANGED <<cacheVars, hookVars, i18nVars, trackVars, keyVars>>
    /\ IF plGen = "finished"
       THEN /\ plPc' = "over"
            /\ UNCHANGED <<plGen, plSent, plLog>>
       ELSE IF Len(plSent) < Len(plReq.chunks)
       THEN /\ plSent' = Append(plSent, plReq.chunks[Len(plSent) + 1])
            /\ plLog' = Append(plLog, "chunk")
            /\ plGen' = "suspended"
            /\ UNCHANGED plPc
       ELSE /\ plLog' = Append(plLog, "callback")
            /\ plGen' = "finished"
            /\ plPc' = "over"
            /\ UNCHANGED plSent

PipeNext == PipeCall \/ PipeNextChunk

SpecPipeline == PipeInit /\ [][PipeNext]_vars

\* C20 as stated: when the callback runs, the caller of the pipeline has
\* received every chunk of the body of the core application, whether the
\* response is persisted or not.
C20_CallbackAfterBodyDelivered ==
    \A i \in 1..Len(plLog) :
        plLog[i] = "callback"
        => /\ plSent = plReq.chunks
           /\ Cardinality({ j \in 1..i : plLog[j] = "chunk" })
              = Len(plReq.chunks)

====
